---- MODULE Spec2Model ----
(***************************************************************************)
(* Model of simulador.py: the Sherwood correlation evaluator               *)
(* (calcular_sherwood) and the two Dash callbacks (actualizar_resultados,  *)
(* actualizar_grafica).                                                    *)
(*                                                                         *)
(* Numbers.  The program computes with IEEE doubles.  The model computes   *)
(* with decimal fixed point: a "Fix" is an integer counting units of       *)
(* 10^-4, so 152.5941 is 1525941.  Products, powers and logarithms are     *)
(* truncated to that grid, which gives three to four significant digits;   *)
(* no property below depends on digits beyond that.  Values with a free    *)
(* decimal exponent (DAB, kc, the result of float()) are "Dec" records     *)
(* [m |-> mantissa, e |-> exponent] standing for m * 10^e.                 *)
(* Texts produced by format specs and read by float() are sequences of     *)
(* one-character strings, so that formatting and parsing are modelled by   *)
(* what they do to the digits.                                             *)
(***************************************************************************)
EXTENDS Integers, Sequences, FiniteSets, TLC

\* ------------------------------------------------------------------------
\* Fixed-point arithmetic (the float operators *, ** and numpy.log10)
\* ------------------------------------------------------------------------

\* One unit of the fixed-point grid: Fix(1.0)
F == 10^4

\* Fix value of the integer n
FixInt(n) == n * F

\* a * b on floats.  Exact truncated product of two non-negative Fix
\* values, split in high and low halves so that no partial product leaves
\* the 32-bit range.
Mul(a, b) ==
    LET ah == a \div F
        al == a % F
        bh == b \div F
        bl == b % F
    IN  ah * bh * F + ah * bl + al * bh + (al * bl) \div F

RECURSIVE Log2Norm(_, _)
\* Scale y into [1, 2) by halving or doubling; n counts the halvings.
Log2Norm(y, n) ==
    IF y >= 2 * F THEN Log2Norm(y \div 2, n + 1)
    ELSE IF y < F THEN Log2Norm(y * 2, n - 1)
    ELSE <<y, n>>

RECURSIVE Log2Frac(_, _, _)
\* The first 13 fraction bits of log2(y), y in [1, 2): square, and emit a
\* 1 bit whenever the square reaches 2.
Log2Frac(y, k, acc) ==
    IF k > 13 THEN acc
    ELSE LET s == Mul(y, y)
         IN  IF s >= 2 * F
             THEN Log2Frac(s \div 2, k + 1, acc + 2^(13 - k))
             ELSE Log2Frac(s, k + 1, acc)

\* log2(x) as a Fix, for a Fix x > 0
Log2(x) ==
    LET nm == Log2Norm(x, 0)
    IN  nm[2] * F + (Log2Frac(nm[1], 1, 0) * F) \div 2^13

RECURSIVE ExpSeries(_, _, _, _)
\* Sum of z^k / k! from term number k on (term is z^(k-1)/(k-1)!)
ExpSeries(z, k, term, acc) ==
    IF term = 0 THEN acc
    ELSE LET t == Mul(term, z) \div k
         IN  ExpSeries(z, k + 1, t, acc + term)

\* 2^q as a Fix, for a Fix q (of either sign)
Exp2(q) ==
    LET n == q \div F
        f == q % F
        z == (f * 69315) \div 10^5
        m == ExpSeries(z, 1, F, 0)
    IN  IF n >= 0 THEN m * 2^n ELSE m \div 2^(-n)

\* x ** (num/den) on floats, for a Fix x > 0
Pow(x, num, den) == Exp2((Log2(x) * num) \div den)

\* ------------------------------------------------------------------------
\* Decimal values, format specs and float()
\* ------------------------------------------------------------------------

\* The float m * 10^e
Dec(m, e) == [m |-> m, e |-> e]

\* A Fix read as a Dec
FixToDec(x) == Dec(x, -4)

Digits == <<"0", "1", "2", "3", "4", "5", "6", "7", "8", "9">>

DigitChar(d) == Digits[d + 1]

IsDigit(c) == \E d \in 1..10 : Digits[d] = c

DigitVal(c) == (CHOOSE d \in 1..10 : Digits[d] = c) - 1

RECURSIVE NumDigits(_)
\* Number of decimal digits of n >= 0
NumDigits(n) == IF n < 10 THEN 1 ELSE 1 + NumDigits(n \div 10)

RECURSIVE IntStr(_)
\* The decimal digits of n >= 0
IntStr(n) ==
    IF n < 10 THEN <<DigitChar(n)>>
    ELSE IntStr(n \div 10) \o <<DigitChar(n % 10)>>

RECURSIVE PadLeft(_, _)
\* s padded with zeros on the left to at least w characters
PadLeft(s, w) == IF Len(s) >= w THEN s ELSE PadLeft(<<"0">> \o s, w)

\* n / d rounded to the nearest integer, ties to even (n >= 0, d > 0)
RoundDiv(n, d) ==
    LET q == n \div d
        r == n % d
    IN  IF 2 * r > d \/ (2 * r = d /\ q % 2 = 1) THEN q + 1 ELSE q

\* abs(n)
Abs(n) == IF n < 0 THEN -n ELSE n

\* The sign a format spec writes before a Dec
SignStr(v) == IF v.m < 0 THEN <<"-">> ELSE <<>>

\* f"{v:.<nd>f}" for a Dec v
FormatF(v, nd) ==
    LET s == v.e + nd
        h == IF s >= 0 THEN Abs(v.m) * 10^s
             ELSE IF -s >= 10 THEN 0
             ELSE RoundDiv(Abs(v.m), 10^(-s))
    IN  IF nd = 0 THEN SignStr(v) \o IntStr(h)
        ELSE SignStr(v) \o IntStr(h \div 10^nd) \o <<".">>
             \o PadLeft(IntStr(h % 10^nd), nd)

\* f"{v:.2e}" for a Dec v
FormatE(v) ==
    IF v.m = 0 THEN <<"0", ".", "0", "0", "e", "+", "0", "0">>
    ELSE LET a  == Abs(v.m)
             d  == NumDigits(a)
             r  == IF d <= 3 THEN a * 10^(3 - d) ELSE RoundDiv(a, 10^(d - 3))
             up == r = 1000
             mt == IF up THEN 100 ELSE r
             ex == v.e + d - 1 + (IF up THEN 1 ELSE 0)
         IN  SignStr(v) \o <<DigitChar(mt \div 100), ".">>
             \o PadLeft(IntStr(mt % 100), 2)
             \o <<"e", IF ex < 0 THEN "-" ELSE "+">>
             \o PadLeft(IntStr(Abs(ex)), 2)

\* What float() raises on a text that is no number
ValueError == [raised |-> "ValueError"]

RECURSIVE IntVal(_)
\* The integer written by a sequence of digits (0 for the empty one)
IntVal(s) ==
    IF s = <<>> THEN 0
    ELSE 10 * IntVal(SubSeq(s, 1, Len(s) - 1)) + DigitVal(s[Len(s)])

AllDigits(s) == \A i \in 1..Len(s) : IsDigit(s[i])

\* Position of the first character of s that is in cs, or 0
FirstOf(s, cs) ==
    IF \E i \in 1..Len(s) : s[i] \in cs
    THEN CHOOSE i \in 1..Len(s) : s[i] \in cs /\ \A j \in 1..(i - 1) : s[j] \notin cs
    ELSE 0

IsSign(s) == s # <<>> /\ s[1] \in {"+", "-"}

Unsigned(s) == IF IsSign(s) THEN Tail(s) ELSE s

SignOf(s) == IF s # <<>> /\ s[1] = "-" THEN -1 ELSE 1

\* float(s) for a text s: [sign] digits [. digits] [e [sign] digits] with
\* at least one mantissa digit gives the Dec it writes; anything else
\* gives ValueError.  (The texts "inf" and "nan" are not modelled.)
ParseFloat(s) ==
    LET body == Unsigned(s)
        ep   == FirstOf(body, {"e", "E"})
        mant == IF ep = 0 THEN body ELSE SubSeq(body, 1, ep - 1)
        expo == IF ep = 0 THEN <<>> ELSE SubSeq(body, ep + 1, Len(body))
        dp   == FirstOf(mant, {"."})
        ip   == IF dp = 0 THEN mant ELSE SubSeq(mant, 1, dp - 1)
        fp   == IF dp = 0 THEN <<>> ELSE SubSeq(mant, dp + 1, Len(mant))
        ed   == Unsigned(expo)
        ok   == /\ AllDigits(ip) /\ AllDigits(fp)
                /\ Len(ip) + Len(fp) >= 1
                /\ ep = 0 \/ (ed # <<>> /\ AllDigits(ed))
    IN  IF ok
        THEN Dec(SignOf(s) * IntVal(ip \o fp), SignOf(expo) * IntVal(ed) - Len(fp))
        ELSE ValueError

\* numpy.log10(v) as a Fix, for a Dec v > 0
Log10(v) ==
    LET d == NumDigits(v.m)
        y == IF d <= 5 THEN v.m * 10^(5 - d) ELSE v.m \div 10^(d - 5)
    IN  (d - 1 + v.e) * F + (Log2(y) * 30103) \div 10^5

\* max(a, b)
Max(a, b) == IF a >= b THEN a ELSE b

\* ------------------------------------------------------------------------
\* The layout: the five input components and what they can deliver
\* ------------------------------------------------------------------------

\* Python's None
None == [none |-> TRUE]

\* The values of the geometry dropdown (opciones_geometria)
opciones_geometria == {"placa", "tubo", "esfera", "gota", "lecho empacado"}

\* A geometry value that is in no option, for direct calls of the evaluator
GeometriaDesconocida == "cilindro"

\* slider-re: min, max, step, value
ReMin == 100
ReMax == 10000
ReStep == 100
ReInicial == 1000

\* slider-sc: min (0.6), max, step, value, as Fix
ScMin == 6000
ScMax == 3000 * F
ScStep == 10 * F
ScInicial == 500 * F

\* input-dab-valor: value (1e-9)
DABInicial == Dec(1, -9)

\* Every ReStride-th position of slider-re is sampled
ReStride == 33

\* Every ScStride-th position of slider-sc is sampled
ScStride == 100

\* Positions of slider-re
ReSlider == {ReMin + k * ReStep : k \in 0..((ReMax - ReMin) \div ReStep)}

\* The sampled positions of slider-re (as integers): every ReStride-th
\* one, the initial one, and those at and next to the thresholds 500, 5000
ReValues ==
    {r \in ReSlider : \/ ((r - ReMin) \div ReStep) % ReStride = 0
                      \/ r \in {ReInicial, 400, 500, 5000, 5100}}

\* Positions of slider-sc: the steps from min, and the marks
ScSlider ==
    {ScMin + k * ScStep : k \in 0..((ScMax - ScMin) \div ScStep)}
        \cup {ScMin, 500 * F, 1500 * F, ScMax}

\* The sampled positions of slider-sc (as Fix): every ScStride-th one, the
\* initial one, and those next to the thresholds 1 and 1000
ScValues ==
    {x \in ScSlider : \/ ((x - ScMin) \div ScStep) % ScStride = 0
                      \/ x \in {ScInicial, ScMin + ScStep, 990 * F + ScMin,
                                1000 * F + ScMin, ScMax}}

\* The values of checklist-dab: nothing ticked, or the one option ticked
ChecklistValues == {{}, {"DAB_ON"}}

\* The sampled values of input-dab-valor: empty, negative, zero, the
\* initial 1e-9, a small 1e-15 and a large 1
DABValues == {None, Dec(-1, -9), Dec(0, 0), DABInicial, Dec(1, -15), Dec(1, 0)}

\* ------------------------------------------------------------------------
\* calcular_sherwood
\* ------------------------------------------------------------------------

\* Correlacion with the coefficients of plate and tube exchanged and the
\* constant term of the droplet left out
CorrelacionCambiada(g, re, sc) ==
    IF g = "placa"
    THEN Mul(Mul(230, Pow(FixInt(re), 8, 10)), Pow(sc, 1, 3))
    ELSE IF g = "tubo"
    THEN Mul(Mul(370, Pow(FixInt(re), 8, 10)), Pow(sc, 1, 3))
    ELSE IF g = "esfera"
    THEN 2 * F + Mul(Mul(6000, Pow(FixInt(re), 5, 10)), Pow(sc, 1, 3))
    ELSE IF g = "gota"
    THEN Mul(Mul(6000, Pow(FixInt(re), 5, 10)), Pow(sc, 1, 3))
    ELSE IF g = "lecho empacado"
    THEN Mul(Mul(11500, Pow(FixInt(re), 6, 10)), Pow(sc, 1, 3))
    ELSE 0

\* The chain of correlations of calcular_sherwood: Re an integer, Sc a
\* Fix; the result is a Fix
Correlacion(g, re, sc) ==
    IF g = "placa"
    THEN Mul(Mul(370, Pow(FixInt(re), 8, 10)), Pow(sc, 1, 3))
    ELSE IF g = "tubo"
    THEN Mul(Mul(230, Pow(FixInt(re), 8, 10)), Pow(sc, 1, 3))
    ELSE IF g = "esfera"
    THEN 2 * F + Mul(Mul(6000, Pow(FixInt(re), 5, 10)), Pow(sc, 1, 3))
    ELSE IF g = "gota"
    THEN 2 * F + Mul(Mul(6000, Pow(FixInt(re), 5, 10)), Pow(sc, 1, 3))
    ELSE IF g = "lecho empacado"
    THEN Mul(Mul(11500, Pow(FixInt(re), 6, 10)), Pow(sc, 1, 3))
    ELSE 0

\* calcular_sherwood without its guard on usar_DAB
calcular_sherwood_sin_guarda(g, re, sc, usar) == Correlacion(g, re, sc)

\* calcular_sherwood(geometria, Re, Sc, usar_DAB)
calcular_sherwood(g, re, sc, usar) ==
    IF ~usar THEN 0 ELSE Correlacion(g, re, sc)

\* ------------------------------------------------------------------------
\* actualizar_resultados
\* ------------------------------------------------------------------------

\* The fixed text of the warning branch
ADVERTENCIA == "ADVERTENCIA: Debe marcar la casilla 'Usar valor DAB' e ingresar un Coeficiente de Difusion (DAB) valido y mayor a cero"

\* Assumed characteristic length, in metres
L_caracteristica == 1

\* str.capitalize() on the geometry values
Capitalize(g) ==
    CASE g = "placa" -> "Placa"
      [] g = "tubo" -> "Tubo"
      [] g = "esfera" -> "Esfera"
      [] g = "gota" -> "Gota"
      [] g = "lecho empacado" -> "Lecho empacado"
      [] g = "cilindro" -> "Cilindro"
      [] OTHER -> g

\* ParteRe with the two thresholds inclusive
ParteReInclusiva(re) ==
    IF re >= 5000
    THEN [regla |-> "Re", nivel |-> "alto", flujo |-> "Turbulento", valor |-> FormatF(Dec(re, 0), 0)]
    ELSE IF re <= 500
    THEN [regla |-> "Re", nivel |-> "bajo", flujo |-> "Laminar", valor |-> FormatF(Dec(re, 0), 0)]
    ELSE [regla |-> "Re", nivel |-> "moderado", flujo |-> "Transicion", valor |-> FormatF(Dec(re, 0), 0)]

\* The first item of the interpretation: the rule on Re
ParteRe(re) ==
    IF re > 5000
    THEN [regla |-> "Re", nivel |-> "alto", flujo |-> "Turbulento", valor |-> FormatF(Dec(re, 0), 0)]
    ELSE IF re < 500
    THEN [regla |-> "Re", nivel |-> "bajo", flujo |-> "Laminar", valor |-> FormatF(Dec(re, 0), 0)]
    ELSE [regla |-> "Re", nivel |-> "moderado", flujo |-> "Transicion", valor |-> FormatF(Dec(re, 0), 0)]

\* The second item: the rule on Sc
ParteSc(sc) ==
    IF sc > 1000 * F
    THEN [regla |-> "Sc", nivel |-> "alto", valor |-> FormatF(FixToDec(sc), 0)]
    ELSE IF sc < 1 * F
    THEN [regla |-> "Sc", nivel |-> "bajo", valor |-> FormatF(FixToDec(sc), 1)]
    ELSE [regla |-> "Sc", nivel |-> "moderado", valor |-> FormatF(FixToDec(sc), 1)]

\* Combinacion with the test on Re left out of the first rule
CombinacionSinRe(sh, re, sc) ==
    IF sh > 1000 * F THEN "Conveccion Forzada Dominante"
    ELSE IF sh < 100 * F /\ sc > 1000 * F THEN "Difusion Lenta Dominante"
    ELSE "Transferencia combinada conveccion/difusion"

\* The label of the third item: the rule on Sh with Re, or Sh with Sc
Combinacion(sh, re, sc) ==
    IF sh > 1000 * F /\ re > 5000 THEN "Conveccion Forzada Dominante"
    ELSE IF sh < 100 * F /\ sc > 1000 * F THEN "Difusion Lenta Dominante"
    ELSE "Transferencia combinada conveccion/difusion"

\* The third item
ParteComb(sh, re, sc, g) ==
    [regla |-> "Combinacion actual", comb |-> Combinacion(sh, re, sc),
     geometria |-> Capitalize(g)]

\* DAB <= 0 for a number DAB
NoPositivo(dab) == dab.m <= 0

\* Aviso with DAB < 0 for DAB <= 0
AvisoSoloNegativo(usar, dab) == ~usar \/ dab = None \/ dab.m < 0

\* not usar_DAB or DAB is None or DAB <= 0 (the operands in this order:
\* DAB is compared with 0 only when it is a number)
Aviso(usar, dab) == ~usar \/ dab = None \/ NoPositivo(dab)

\* CalcularKc with the factor Sh left out
CalcularKcSinSh(sh, dab) == Dec((F * dab.m) \div L_caracteristica, dab.e - 4)

\* Sh * (DAB / L_caracteristica), a Dec
CalcularKc(sh, dab) == Dec((sh * dab.m) \div L_caracteristica, dab.e - 4)

\* The body of actualizar_resultados: its locals and its three return
\* values for the given inputs
Resultados(g, re, sc, checklist, dab) ==
    LET usar == "DAB_ON" \in checklist
        warn == Aviso(usar, dab)
        sh   == IF warn THEN 0 ELSE calcular_sherwood(g, re, sc, usar)
        k    == IF warn THEN Dec(0, 0) ELSE CalcularKc(sh, dab)
    IN  [usar_DAB |-> usar, Sh |-> sh, kc |-> k,
         sh_str |-> FormatF(FixToDec(sh), 2),
         kc_str |-> FormatE(k),
         interpretacion |->
             IF warn THEN [tipo |-> "str", texto |-> ADVERTENCIA]
             ELSE [tipo |-> "Ul",
                   items |-> <<ParteRe(re), ParteSc(sc), ParteComb(sh, re, sc, g)>>]]

\* ------------------------------------------------------------------------
\* actualizar_grafica
\* ------------------------------------------------------------------------

\* PuntoGrafica replacing only the value whose float() failed
PuntoGraficaParcial(Sh_str, kc_str) ==
    LET pSh == ParseFloat(Sh_str)
        pkc == ParseFloat(kc_str)
    IN  <<IF pSh = ValueError THEN Dec(1, 0) ELSE pSh,
          IF pkc = ValueError THEN Dec(1, -10) ELSE pkc>>

\* The try block of actualizar_grafica: <<Sh, kc>> read from the two
\* texts, or the reference point when either float() raises ValueError
PuntoGrafica(Sh_str, kc_str) ==
    LET pSh == ParseFloat(Sh_str)
        pkc == ParseFloat(kc_str)
    IN  IF pSh = ValueError \/ pkc = ValueError
        THEN <<Dec(1, 0), Dec(1, -10)>>
        ELSE <<pSh, pkc>>

\* RangoMax without the max with the default
RangoMaxSinDefault(default, v) ==
    IF v.m > 0 THEN Log10(v) + F \div 2 ELSE default

\* The upper end of an axis range (a Fix): the default, widened for a
\* positive value v to log10(v) + 0.5
RangoMax(default, v) ==
    IF v.m > 0 THEN Max(default, Log10(v) + F \div 2) ELSE default

\* The body of actualizar_grafica: the figure for two display texts
Grafica(Sh_str, kc_str) ==
    LET p      == PuntoGrafica(Sh_str, kc_str)
        sh_min == 0
        sh_max == (43 * F) \div 10
        kc_min == -12 * F
        kc_max == -3 * F
    IN  [x |-> p[1], y |-> p[2],
         text |-> <<FormatF(p[1], 2), FormatE(p[2])>>,
         xrange |-> <<sh_min, RangoMax(sh_max, p[1])>>,
         yrange |-> <<kc_min, RangoMax(kc_max, p[2])>>]

\* ------------------------------------------------------------------------
\* State
\* ------------------------------------------------------------------------

VARIABLES
    geometria,              \* dropdown-geometria.value
    Re,                     \* slider-re.value
    Sc,                     \* slider-sc.value (Fix)
    checklist_dab,          \* checklist-dab.value
    DAB,                    \* input-dab-valor.value (Dec or None)
    output_sh,              \* output-sh.children
    output_kc,              \* output-kc.children
    output_interpretacion,  \* output-interpretacion.children
    figure,                 \* graph-sh-kc.figure
    usar_DAB,               \* the flag of the last evaluation
    Sh,                     \* the Sherwood number of the last evaluation (Fix)
    kc,                     \* the coefficient of the last evaluation (Dec)
    pc                      \* what runs next

inputs == <<geometria, Re, Sc, checklist_dab, DAB>>
outputs == <<output_sh, output_kc, output_interpretacion>>
locals == <<usar_DAB, Sh, kc>>
vars == <<inputs, outputs, figure, locals, pc>>

\* ------------------------------------------------------------------------
\* The application: input events and the callback chain
\* ------------------------------------------------------------------------

\* The page as first served: the layout's values, nothing computed yet,
\* and the initial call of actualizar_resultados pending
Init ==
    /\ geometria = "esfera"
    /\ Re = ReInicial
    /\ Sc = ScInicial
    /\ checklist_dab = {"DAB_ON"}
    /\ DAB = DABInicial
    /\ output_sh = None
    /\ output_kc = None
    /\ output_interpretacion = None
    /\ figure = None
    /\ usar_DAB = None
    /\ Sh = None
    /\ kc = None
    /\ pc = "resultados"

\* The user picks another geometry.  (Input events are taken one at a
\* time: the next one when the callbacks of the last one have run.)
CambiarGeometria(g) ==
    /\ pc = "idle"
    /\ g # geometria
    /\ geometria' = g
    /\ pc' = "resultados"
    /\ UNCHANGED <<Re, Sc, checklist_dab, DAB, outputs, figure, locals>>

\* The user moves slider-re
CambiarRe(r) ==
    /\ pc = "idle"
    /\ r # Re
    /\ Re' = r
    /\ pc' = "resultados"
    /\ UNCHANGED <<geometria, Sc, checklist_dab, DAB, outputs, figure, locals>>

\* The user moves slider-sc
CambiarSc(x) ==
    /\ pc = "idle"
    /\ x # Sc
    /\ Sc' = x
    /\ pc' = "resultados"
    /\ UNCHANGED <<geometria, Re, checklist_dab, DAB, outputs, figure, locals>>

\* The user ticks or unticks the DAB checkbox
CambiarChecklist(c) ==
    /\ pc = "idle"
    /\ c # checklist_dab
    /\ checklist_dab' = c
    /\ pc' = "resultados"
    /\ UNCHANGED <<geometria, Re, Sc, DAB, outputs, figure, locals>>

\* The user edits the DAB field
CambiarDAB(d) ==
    /\ pc = "idle"
    /\ d # DAB
    /\ DAB' = d
    /\ pc' = "resultados"
    /\ UNCHANGED <<geometria, Re, Sc, checklist_dab, outputs, figure, locals>>

\* The callback on the five inputs; its outputs are the inputs of the
\* chart callback, which runs next
actualizar_resultados ==
    /\ pc = "resultados"
    /\ LET r == Resultados(geometria, Re, Sc, checklist_dab, DAB)
       IN  /\ usar_DAB' = r.usar_DAB
           /\ Sh' = r.Sh
           /\ kc' = r.kc
           /\ output_sh' = r.sh_str
           /\ output_kc' = r.kc_str
           /\ output_interpretacion' = r.interpretacion
    /\ pc' = "grafica"
    /\ UNCHANGED <<inputs, figure>>

\* actualizar_grafica keeping the widest upper ends it has drawn so far
actualizar_grafica_acumulada ==
    /\ pc = "grafica"
    /\ LET g == Grafica(output_sh, output_kc)
       IN  figure' = IF figure = None THEN g
                     ELSE [g EXCEPT !.xrange[2] = Max(@, figure.xrange[2]),
                                    !.yrange[2] = Max(@, figure.yrange[2])]
    /\ pc' = "idle"
    /\ UNCHANGED <<inputs, outputs, locals>>

\* The callback on output-sh and output-kc
actualizar_grafica ==
    /\ pc = "grafica"
    /\ figure' = Grafica(output_sh, output_kc)
    /\ pc' = "idle"
    /\ UNCHANGED <<inputs, outputs, locals>>

Next ==
    \/ \E g \in opciones_geometria : CambiarGeometria(g)
    \/ \E r \in ReValues : CambiarRe(r)
    \/ \E x \in ScValues : CambiarSc(x)
    \/ \E c \in ChecklistValues : CambiarChecklist(c)
    \/ \E d \in DABValues : CambiarDAB(d)
    \/ actualizar_resultados
    \/ actualizar_grafica

Spec == Init /\ [][Next]_vars

\* ------------------------------------------------------------------------
\* calcular_sherwood called directly
\* ------------------------------------------------------------------------

\* Any geometry value, Re, Sc and flag, before the call
InitSherwood ==
    /\ geometria \in opciones_geometria \cup {GeometriaDesconocida}
    /\ Re \in ReValues
    /\ Sc \in ScValues
    /\ usar_DAB \in BOOLEAN
    /\ Sh = None
    /\ pc = "sherwood"
    /\ checklist_dab = {"DAB_ON"}
    /\ DAB = DABInicial
    /\ output_sh = None
    /\ output_kc = None
    /\ output_interpretacion = None
    /\ figure = None
    /\ kc = None

\* The call and its return value
LlamarSherwood ==
    /\ pc = "sherwood"
    /\ Sh' = calcular_sherwood(geometria, Re, Sc, usar_DAB)
    /\ pc' = "fin"
    /\ UNCHANGED <<inputs, outputs, figure, usar_DAB, kc>>

NextSherwood == LlamarSherwood

SpecSherwood == InitSherwood /\ [][NextSherwood]_vars

\* ------------------------------------------------------------------------
\* actualizar_resultados called directly
\* ------------------------------------------------------------------------

\* Any geometry value, sampled Re, Sc, checklist and DAB, before the call
InitResultados ==
    /\ geometria \in opciones_geometria \cup {GeometriaDesconocida}
    /\ Re \in ReValues
    /\ Sc \in ScValues
    /\ checklist_dab \in ChecklistValues
    /\ DAB \in DABValues
    /\ output_sh = None
    /\ output_kc = None
    /\ output_interpretacion = None
    /\ figure = None
    /\ usar_DAB = None
    /\ Sh = None
    /\ kc = None
    /\ pc = "resultados"

NextResultados == actualizar_resultados \/ actualizar_grafica

SpecResultados == InitResultados /\ [][NextResultados]_vars

\* ------------------------------------------------------------------------
\* actualizar_grafica called directly
\* ------------------------------------------------------------------------

\* Display texts: what actualizar_resultados writes, other numerals, and
\* texts that are no number
Textos ==
    {<<"0", ".", "0", "0">>, <<"0", ".", "7", "7">>, <<"1", ".", "0", "0">>,
     <<"1", "5", "2", ".", "5", "9">>, <<"2", "5", "0", "0", "0", ".", "0", "0">>,
     <<"7", "e", "4">>, <<"0", ".", "0", "0", "e", "+", "0", "0">>,
     <<"1", ".", "5", "3", "e", "-", "0", "7">>, <<"4", ".", "1", "7", "e", "-", "1", "3">>,
     <<"2", ".", "5", "0", "e", "-", "0", "3">>, <<"4", ".", "1", "7", "e", "+", "0", "3">>,
     <<"-", "1", ".", "0", "0">>,
     <<>>, <<"S", "h">>, <<"1", ".", "2", ".", "3">>, <<"1", "e">>}

\* Any two display texts, before the call
InitGrafica ==
    /\ output_sh \in Textos
    /\ output_kc \in Textos
    /\ pc = "grafica"
    /\ figure = None
    /\ geometria = "esfera"
    /\ Re = ReInicial
    /\ Sc = ScInicial
    /\ checklist_dab = {"DAB_ON"}
    /\ DAB = DABInicial
    /\ output_interpretacion = None
    /\ usar_DAB = None
    /\ Sh = None
    /\ kc = None

NextGrafica == actualizar_grafica

SpecGrafica == InitGrafica /\ [][NextGrafica]_vars

\* ------------------------------------------------------------------------
\* Properties
\* ------------------------------------------------------------------------

\* actualizar_resultados has run on the current inputs
Calculado == pc \in {"grafica", "idle"}

\* The current inputs are those of the warning branch
EntradaInvalida ==
    \/ "DAB_ON" \notin checklist_dab
    \/ DAB = None
    \/ DAB.m <= 0

\* The texts "0.00" and "0.00e+00"
TextoCero == <<"0", ".", "0", "0">>
TextoCeroE == <<"0", ".", "0", "0", "e", "+", "0", "0">>

\* C1: whenever the DAB checkbox is off, or DAB is None, or DAB <= 0,
\* actualizar_resultados returns Sh = 0.0 shown as "0.00", kc = 0.0 shown as
\* "0.00e+00" and the fixed warning text, whatever geometry, Re and Sc are.
C1_AvisoFuerzaCero ==
    (Calculado /\ EntradaInvalida) =>
        /\ Sh = 0
        /\ kc.m = 0
        /\ output_sh = TextoCero
        /\ output_kc = TextoCeroE
        /\ output_interpretacion = [tipo |-> "str", texto |-> ADVERTENCIA]

\* C1 witness: the checkbox is ticked and DAB is the number 0, for a
\* geometry that is in no option and the largest Re, and the warning is
\* returned
C1_Witness ==
    /\ pc = "idle"
    /\ "DAB_ON" \in checklist_dab
    /\ DAB = Dec(0, 0)
    /\ geometria = GeometriaDesconocida
    /\ Re = ReMax
    /\ output_sh = TextoCero
    /\ output_interpretacion.tipo = "str"

\* C2: calcular_sherwood called with usar_DAB false returns 0.0 for every
\* geometry, recognised or not, and every Re and Sc.
C2_SinDABCero ==
    (pc = "fin" /\ ~usar_DAB) => Sh = 0

\* C2 witness: a call with the flag false, a recognised geometry and the
\* largest Re and Sc has returned 0
C2_Witness ==
    /\ pc = "fin"
    /\ usar_DAB = FALSE
    /\ geometria = "lecho empacado"
    /\ Re = ReMax
    /\ Sc = ScMax
    /\ Sh = 0

\* The correlation table of the specification: Sh = a + c * Re^(n/10) *
\* Sc^(1/3), with c and a as Fix
TablaCorrelaciones ==
    [g \in opciones_geometria |->
        CASE g = "placa" -> [c |-> 370, n |-> 8, a |-> 0]
          [] g = "tubo" -> [c |-> 230, n |-> 8, a |-> 0]
          [] g = "esfera" -> [c |-> 6000, n |-> 5, a |-> 2 * F]
          [] g = "gota" -> [c |-> 6000, n |-> 5, a |-> 2 * F]
          [] g = "lecho empacado" -> [c |-> 11500, n |-> 6, a |-> 0]]

\* C3: with the flag on, calcular_sherwood returns the value of the table's
\* correlation for the geometry (0.037 Re^0.8, 0.023 Re^0.8, 2 + 0.6 Re^0.5
\* for sphere and droplet alike, 1.15 Re^0.6, each product times Sc^(1/3)),
\* and 0.0 for any other geometry.  At Re = 1000, Sc = 500 the sphere's
\* value is 152.59 to within the model's precision.
C3_TablaCorrelaciones ==
    (pc = "fin" /\ usar_DAB) =>
        /\ geometria \in opciones_geometria =>
              LET t == TablaCorrelaciones[geometria]
              IN  Sh = t.a + Mul(Mul(t.c, Pow(FixInt(Re), t.n, 10)), Pow(Sc, 1, 3))
        /\ geometria \notin opciones_geometria => Sh = 0
        /\ geometria = "gota" => Sh = calcular_sherwood("esfera", Re, Sc, TRUE)
        /\ (geometria \in {"esfera", "gota"} /\ Re = 1000 /\ Sc = 500 * F) =>
              (Sh > 1524000 /\ Sh < 1528000)

\* C3 witness: the droplet correlation has been evaluated at Re = 1000,
\* Sc = 500 and returned a value above its constant term 2.0
C3_Witness ==
    /\ pc = "fin"
    /\ usar_DAB = TRUE
    /\ geometria = "gota"
    /\ Re = 1000
    /\ Sc = 500 * F
    /\ Sh > 2 * F

\* C4: with the checkbox on and DAB > 0, kc = Sh * DAB (characteristic
\* length 1), Sh being calcular_sherwood of the current geometry, Re and Sc;
\* kc is nonzero only in that case, and there it is zero exactly when Sh is.
C4_KcEsShPorDAB ==
    Calculado =>
        /\ ~EntradaInvalida =>
              /\ Sh = calcular_sherwood(geometria, Re, Sc, TRUE)
              /\ kc.m = Sh * DAB.m
              /\ kc.e = DAB.e - 4
              /\ (kc.m = 0) <=> (Sh = 0)
        /\ kc.m # 0 => ~EntradaInvalida

\* C4 witness: a valid DAB and a geometry that is in no option, so that
\* Sh and with it kc are zero outside the warning branch
C4_Witness ==
    /\ pc = "idle"
    /\ "DAB_ON" \in checklist_dab
    /\ DAB = Dec(1, -15)
    /\ geometria = GeometriaDesconocida
    /\ output_interpretacion.tipo = "Ul"
    /\ Sh = 0
    /\ kc.m = 0

\* The flow regime the thresholds on Re give
RegimenEsperado ==
    IF Re > 5000 THEN "Turbulento"
    ELSE IF Re < 500 THEN "Laminar"
    ELSE "Transicion"

\* C5: outside the warning branch the first item of the interpretation is
\* the Re rule: turbulent for Re > 5000, laminar for Re < 500, transitional
\* for 500 <= Re <= 5000, the two thresholds included.
C5_RegimenPorRe ==
    (Calculado /\ ~EntradaInvalida) =>
        LET it == output_interpretacion.items[1]
        IN  /\ it.regla = "Re"
            /\ it.flujo = RegimenEsperado
            /\ \A i \in 2..Len(output_interpretacion.items) :
                  output_interpretacion.items[i].regla # "Re"
            /\ Re \in {500, 5000} => it.flujo = "Transicion"
            /\ Re = 5100 => it.flujo = "Turbulento"
            /\ Re = 400 => it.flujo = "Laminar"

\* C5 witness: Re is exactly 5000 and the transitional statement is shown
C5_Witness ==
    /\ pc = "idle"
    /\ ~EntradaInvalida
    /\ Re = 5000
    /\ output_interpretacion.items[1].flujo = "Transicion"

\* The combined label the thresholds on Sh, Re and Sc give
CombinacionEsperada ==
    IF Sh > 1000 * F /\ Re > 5000 THEN "Conveccion Forzada Dominante"
    ELSE IF Sh < 100 * F /\ Sc > 1000 * F THEN "Difusion Lenta Dominante"
    ELSE "Transferencia combinada conveccion/difusion"

\* C6: outside the warning branch the interpretation is a list of exactly
\* three items, the Re rule, the Sc rule and the combined rule in this
\* order; the combined label is forced convection iff Sh > 1000 and
\* Re > 5000, else slow diffusion iff Sh < 100 and Sc > 1000, else combined
\* transfer, and the item carries the name of the selected geometry.
C6_TresPartes ==
    (Calculado /\ ~EntradaInvalida) =>
        LET its == output_interpretacion.items
        IN  /\ output_interpretacion.tipo = "Ul"
            /\ Len(its) = 3
            /\ its[1].regla = "Re"
            /\ its[2].regla = "Sc"
            /\ its[3].regla = "Combinacion actual"
            /\ its[3].comb = CombinacionEsperada
            /\ (its[3].comb = "Conveccion Forzada Dominante")
                  <=> (Sh > 1000 * F /\ Re > 5000)
            /\ (its[3].comb = "Difusion Lenta Dominante")
                  <=> (Sh < 100 * F /\ Sc > 1000 * F)
            /\ its[3].geometria = Capitalize(geometria)

\* C6 witness: Sh is above 1000 while Re is not above 5000, so the label
\* is the combined one
C6_Witness ==
    /\ pc = "idle"
    /\ ~EntradaInvalida
    /\ Sh > 1000 * F
    /\ Re <= 5000
    /\ output_interpretacion.items[3].comb = "Transferencia combinada conveccion/difusion"

\* float() fails on one of the two display texts
ConversionFalla ==
    ParseFloat(output_sh) = ValueError \/ ParseFloat(output_kc) = ValueError

\* C7: for every pair of display texts of which one is no number,
\* actualizar_grafica returns a figure whose point is the reference point
\* Sh = 1.0, kc = 1e-10.
C7_PuntoDeReferencia ==
    (pc = "idle" /\ ConversionFalla) =>
        /\ figure # None
        /\ figure.x = Dec(1, 0)
        /\ figure.y = Dec(1, -10)

\* C7 witness: the Sherwood text is a numeral other than 1, the coefficient
\* text is empty, and the figure has been drawn
C7_Witness ==
    /\ pc = "idle"
    /\ output_sh = <<"1", "5", "2", ".", "5", "9">>
    /\ output_kc = <<>>
    /\ figure.x = Dec(1, 0)

\* The point of the figure lies within both axis ranges of the log-log chart
PuntoEnRango ==
    /\ figure.x.m > 0
    /\ figure.xrange[1] <= Log10(figure.x)
    /\ Log10(figure.x) <= figure.xrange[2]
    /\ figure.y.m > 0
    /\ figure.yrange[1] <= Log10(figure.y)
    /\ Log10(figure.y) <= figure.yrange[2]

\* C8: after actualizar_grafica the plotted point lies inside both axis
\* ranges, for every output of actualizar_resultados, the forced-zero
\* warning result included.
C8_PuntoDentro ==
    pc = "idle" => PuntoEnRango

\* The upper end max(default, log10(v) + 0.5), or the default for v <= 0
SuperiorEsperado(default, v) ==
    IF v.m > 0 THEN Max(default, Log10(v) + 5000) ELSE default

\* Order key of a Dec > 0: its decimal order of magnitude, then its digits
DecKey(v) == <<NumDigits(v.m) + v.e, v.m * 10^(9 - NumDigits(v.m))>>

\* a <= b for two Dec, b > 0
DecLeq(a, b) ==
    \/ a.m <= 0
    \/ DecKey(a)[1] < DecKey(b)[1]
    \/ DecKey(a)[1] = DecKey(b)[1] /\ DecKey(a)[2] <= DecKey(b)[2]

\* The numbers the display texts write
ValoresDeTextos == {ParseFloat(t) : t \in Textos} \ {ValueError}

\* C9: the lower ends of the ranges are 0 and -12; each upper end is
\* max(default, log10(value) + 0.5) with the defaults 4.3 and -3, never below
\* the default, the default itself for a value <= 0, and no smaller for a
\* larger value.
C9_RangosMonotonos ==
    pc = "idle" =>
        /\ figure.xrange[1] = 0
        /\ figure.yrange[1] = -12 * F
        /\ figure.xrange[2] = SuperiorEsperado(43000, figure.x)
        /\ figure.yrange[2] = SuperiorEsperado(-3 * F, figure.y)
        /\ figure.xrange[2] >= 43000
        /\ figure.yrange[2] >= -3 * F
        /\ figure.x.m <= 0 => figure.xrange[2] = 43000
        /\ figure.y.m <= 0 => figure.yrange[2] = -3 * F
        /\ \A v \in ValoresDeTextos :
              (v.m > 0 /\ DecLeq(figure.x, v)) =>
                  RangoMax(43000, v) >= figure.xrange[2]
        /\ \A v \in ValoresDeTextos :
              (v.m > 0 /\ DecLeq(figure.y, v)) =>
                  RangoMax(-3 * F, v) >= figure.yrange[2]

\* C9 witness: a figure whose two upper ends were both widened
C9_Witness ==
    /\ pc = "idle"
    /\ figure.xrange[2] > 43000
    /\ figure.yrange[2] > -3 * F

\* C10: once both callbacks have run for the latest change, the three
\* outputs and the figure are the values the current five inputs give, and
\* the plotted point is what float() reads from the two displayed texts.
C10_SoloEntradasActuales ==
    pc = "idle" =>
        LET r == Resultados(geometria, Re, Sc, checklist_dab, DAB)
        IN  /\ output_sh = r.sh_str
            /\ output_kc = r.kc_str
            /\ output_interpretacion = r.interpretacion
            /\ figure = Grafica(r.sh_str, r.kc_str)
            /\ figure.x = ParseFloat(output_sh)
            /\ figure.y = ParseFloat(output_kc)

\* C10 witness: three inputs differ from the initial ones, the callbacks
\* have run, the figure shows a widened coefficient axis and a point read
\* from the rounded text, which is not the unrounded Sh
C10_Witness ==
    /\ pc = "idle"
    /\ geometria = "lecho empacado"
    /\ Re = 5100
    /\ DAB = Dec(1, 0)
    /\ "DAB_ON" \in checklist_dab
    /\ figure.yrange[2] > -3 * F
    /\ figure.x.m * 100 # Sh

====
